---- MODULE Spec2Model ----
(***************************************************************************)
(* verz: a command line tool that bumps the version of package.json,       *)
(* commits the change and creates a git tag.                               *)
(*                                                                         *)
(* Strings are sequences of one-character strings, so that split, regular  *)
(* expression matches, parseInt and number formatting are computed the way *)
(* the program computes them.                                              *)
(***************************************************************************)
EXTENDS Integers, Sequences, FiniteSets, TLC

(***************************************************************************)
(* Characters and strings                                                  *)
(***************************************************************************)

\* The characters in ASCII order (only their relative order is used).
Alphabet ==
    <<"\n", " ", "%", "-", ".", "0", "1", "2", "3", "4", "5", "6", "7", "8", "9", ":",
      "a", "b", "c", "d", "e", "f", "g", "h", "i", "j", "k", "l", "m",
      "n", "o", "p", "q", "r", "s", "t", "u", "v", "w", "x", "y", "z">>

Digits == <<"0", "1", "2", "3", "4", "5", "6", "7", "8", "9">>

IsDigit(c) == \E i \in 1..10 : Digits[i] = c

DigitVal(c) == (CHOOSE i \in 1..10 : Digits[i] = c) - 1

CharCode(c) == CHOOSE i \in 1..Len(Alphabet) : Alphabet[i] = c

AllDigits(s) == Len(s) > 0 /\ \A i \in 1..Len(s) : IsDigit(s[i])

\* The value of a string of decimal digits.
RECURSIVE DigitsValue(_)
DigitsValue(s) ==
    IF Len(s) = 0 THEN 0
    ELSE 10 * DigitsValue(SubSeq(s, 1, Len(s) - 1)) + DigitVal(s[Len(s)])

\* Number -> decimal string (template literal `${n}` of a non-negative integer).
RECURSIVE numToString(_)
numToString(n) ==
    IF n < 10 THEN <<Digits[n + 1]>>
    ELSE numToString(n \div 10) \o <<Digits[(n % 10) + 1]>>

\* Not-a-number, the result of parseInt on a string without leading digits.
NaN == -1

\* The length of the longest prefix of s made of digits.
RECURSIVE LeadingDigits(_)
LeadingDigits(s) ==
    IF Len(s) = 0 \/ ~IsDigit(s[1]) THEN 0
    ELSE 1 + LeadingDigits(Tail(s))

\* JavaScript parseInt(s, 10) on an unsigned input: the leading digits, or NaN.
parseInt(s) ==
    IF LeadingDigits(s) = 0 THEN NaN
    ELSE DigitsValue(SubSeq(s, 1, LeadingDigits(s)))

\* String.prototype.startsWith
startsWith(s, p) == Len(p) <= Len(s) /\ SubSeq(s, 1, Len(p)) = p

\* The position of the first occurrence of character c in s, or 0.
IndexOf(s, c) ==
    IF \E i \in 1..Len(s) : s[i] = c
    THEN CHOOSE i \in 1..Len(s) : s[i] = c /\ \A j \in 1..(i - 1) : s[j] # c
    ELSE 0

\* String.prototype.split on a one-character separator.
RECURSIVE split(_, _)
split(s, sep) ==
    IF IndexOf(s, sep) = 0 THEN <<s>>
    ELSE <<SubSeq(s, 1, IndexOf(s, sep) - 1)>>
         \o split(SubSeq(s, IndexOf(s, sep) + 1, Len(s)), sep)

\* Array.prototype.join on a one-character separator.
RECURSIVE join(_, _)
join(parts, sep) ==
    IF Len(parts) = 0 THEN <<>>
    ELSE IF Len(parts) = 1 THEN parts[1]
    ELSE parts[1] \o <<sep>> \o join(Tail(parts), sep)

\* A replace that leaves the template as it is.
replaceNothing(template, v) == template

\* String.prototype.replace('%v', v): only the first occurrence is replaced.
replace(template, v) ==
    IF \E i \in 1..(Len(template) - 1) : template[i] = "%" /\ template[i + 1] = "v"
    THEN LET i == CHOOSE k \in 1..(Len(template) - 1) :
                      /\ template[k] = "%" /\ template[k + 1] = "v"
                      /\ \A j \in 1..(k - 1) : ~(template[j] = "%" /\ template[j + 1] = "v")
         IN  SubSeq(template, 1, i - 1) \o v \o SubSeq(template, i + 2, Len(template))
    ELSE template

\* The value JavaScript gives a missing property: no string of characters.
Undefined == <<"undefined">>

(***************************************************************************)
(* The semver capability: valid, inc and the precedence order              *)
(***************************************************************************)

IsLetterOrHyphen(c) == c = "-" \/ (CharCode(c) >= CharCode("a") /\ CharCode(c) <= CharCode("z"))

\* NUMERICIDENTIFIER: 0|[1-9]\d*
IsNumericIdentifier(s) == AllDigits(s) /\ (Len(s) = 1 \/ s[1] # "0")

\* PRERELEASEIDENTIFIER: a numeric identifier, or [0-9a-z-]+ with a non-digit.
IsPrereleaseIdentifier(s) ==
    /\ Len(s) > 0
    /\ \A i \in 1..Len(s) : IsDigit(s[i]) \/ IsLetterOrHyphen(s[i])
    /\ (AllDigits(s) => IsNumericIdentifier(s))

\* A prerelease identifier as SemVer keeps it: a number or a string.
Identifier(s) ==
    IF AllDigits(s) THEN [num |-> TRUE, n |-> DigitsValue(s), s |-> <<>>]
    ELSE [num |-> FALSE, n |-> 0, s |-> s]

NumId(n) == [num |-> TRUE, n |-> n, s |-> <<>>]

IdentifierText(id) == IF id.num THEN numToString(id.n) ELSE id.s

\* The main part and the prerelease part of a version string.
MainPart(v) == IF IndexOf(v, "-") = 0 THEN v ELSE SubSeq(v, 1, IndexOf(v, "-") - 1)
HasPrePart(v) == IndexOf(v, "-") # 0
PrePart(v) == SubSeq(v, IndexOf(v, "-") + 1, Len(v))

\* semver.valid(v) # null, strict mode, no build metadata.
SemverValid(v) ==
    /\ v # Undefined
    /\ Len(split(MainPart(v), ".")) = 3
    /\ \A i \in 1..3 : IsNumericIdentifier(split(MainPart(v), ".")[i])
    /\ (HasPrePart(v) =>
          \A i \in 1..Len(split(PrePart(v), ".")) : IsPrereleaseIdentifier(split(PrePart(v), ".")[i]))

\* new SemVer(v)
SemverParse(v) ==
    LET m == split(MainPart(v), ".")
        p == IF HasPrePart(v) THEN split(PrePart(v), ".") ELSE <<>>
    IN  [major |-> DigitsValue(m[1]), minor |-> DigitsValue(m[2]), patch |-> DigitsValue(m[3]),
         prerelease |-> [i \in 1..Len(p) |-> Identifier(p[i])]]

\* SemVer.format()
SemverFormat(sv) ==
    numToString(sv.major) \o <<".">> \o numToString(sv.minor) \o <<".">> \o numToString(sv.patch)
    \o (IF Len(sv.prerelease) = 0 THEN <<>>
        ELSE <<"-">> \o join([i \in 1..Len(sv.prerelease) |-> IdentifierText(sv.prerelease[i])], "."))

\* The index of the last numeric identifier of a prerelease, or 0.
LastNumeric(pre) ==
    IF \E i \in 1..Len(pre) : pre[i].num
    THEN CHOOSE i \in 1..Len(pre) : pre[i].num /\ \A j \in (i + 1)..Len(pre) : ~pre[j].num
    ELSE 0

\* SemVer.inc('pre', identifier): bump the last numeric identifier (or append 0),
\* then keep the prerelease only if it already is <identifier>.<number>.
IncPre(sv, identifier) ==
    LET pre == sv.prerelease
        bumped == IF Len(pre) = 0 THEN <<NumId(0)>>
                  ELSE IF LastNumeric(pre) # 0
                       THEN [pre EXCEPT ![LastNumeric(pre)] = NumId(pre[LastNumeric(pre)].n + 1)]
                       ELSE Append(pre, NumId(0))
        fresh == <<Identifier(identifier), NumId(0)>>
    IN  [sv EXCEPT !.prerelease =
            IF identifier = Undefined \/ Len(identifier) = 0 THEN bumped
            ELSE IF bumped[1] = Identifier(identifier)
            THEN (IF Len(bumped) < 2 \/ ~bumped[2].num THEN fresh ELSE bumped)
            ELSE fresh]

IncPatch(sv) ==
    [sv EXCEPT !.patch = IF Len(sv.prerelease) = 0 THEN sv.patch + 1 ELSE sv.patch,
               !.prerelease = <<>>]

IncMinor(sv) ==
    [sv EXCEPT !.minor = IF sv.patch # 0 \/ Len(sv.prerelease) = 0 THEN sv.minor + 1 ELSE sv.minor,
               !.patch = 0, !.prerelease = <<>>]

IncMajor(sv) ==
    [sv EXCEPT !.major = IF sv.minor # 0 \/ sv.patch # 0 \/ Len(sv.prerelease) = 0
                         THEN sv.major + 1 ELSE sv.major,
               !.minor = 0, !.patch = 0, !.prerelease = <<>>]

ReleaseTypes == {"major", "minor", "patch", "prerelease"}

\* No result (semver.inc returns null).
Null == <<"null">>

\* semver.inc(version, type, false, identifier): the bumped version string, or null
\* when the version is not valid semver or the type is no release type.
SemverInc(version, type, identifier) ==
    IF ~SemverValid(version) \/ type \notin ReleaseTypes THEN Null
    ELSE LET sv == SemverParse(version)
         IN  SemverFormat(
                CASE type = "major" -> IncMajor(sv)
                  [] type = "minor" -> IncMinor(sv)
                  [] type = "patch" -> IncPatch(sv)
                  [] type = "prerelease" ->
                        IncPre(IF Len(sv.prerelease) = 0 THEN IncPatch(sv) ELSE sv, identifier))

\* Lexical (ASCII) order of two strings: -1, 0 or 1.
RECURSIVE CompareStrings(_, _)
CompareStrings(a, b) ==
    IF Len(a) = 0 /\ Len(b) = 0 THEN 0
    ELSE IF Len(a) = 0 THEN -1
    ELSE IF Len(b) = 0 THEN 1
    ELSE IF CharCode(a[1]) < CharCode(b[1]) THEN -1
    ELSE IF CharCode(a[1]) > CharCode(b[1]) THEN 1
    ELSE CompareStrings(Tail(a), Tail(b))

\* compareIdentifiers: numbers before strings, numbers by value, strings lexically.
CompareIdentifiers(a, b) ==
    IF a.num /\ b.num THEN (IF a.n < b.n THEN -1 ELSE IF a.n > b.n THEN 1 ELSE 0)
    ELSE IF a.num THEN -1
    ELSE IF b.num THEN 1
    ELSE CompareStrings(a.s, b.s)

\* SemVer.comparePre: a version without prerelease is greater than one with.
RECURSIVE ComparePre(_, _)
ComparePre(p, q) ==
    IF Len(p) = 0 /\ Len(q) = 0 THEN 0
    ELSE IF Len(q) = 0 THEN 1
    ELSE IF Len(p) = 0 THEN -1
    ELSE IF CompareIdentifiers(p[1], q[1]) # 0 THEN CompareIdentifiers(p[1], q[1])
    ELSE ComparePre(Tail(p), Tail(q))

CompareNat(a, b) == IF a < b THEN -1 ELSE IF a > b THEN 1 ELSE 0

\* semver.compare(a, b) on two valid version strings.
SemverCompare(a, b) ==
    LET x == SemverParse(a)
        y == SemverParse(b)
    IN  IF CompareNat(x.major, y.major) # 0 THEN CompareNat(x.major, y.major)
        ELSE IF CompareNat(x.minor, y.minor) # 0 THEN CompareNat(x.minor, y.minor)
        ELSE IF CompareNat(x.patch, y.patch) # 0 THEN CompareNat(x.patch, y.patch)
        ELSE IF Len(x.prerelease) = 0 /\ Len(y.prerelease) = 0 THEN 0
        ELSE IF Len(x.prerelease) = 0 THEN 1
        ELSE IF Len(y.prerelease) = 0 THEN -1
        ELSE ComparePre(x.prerelease, y.prerelease)

SemverGt(a, b) == SemverCompare(a, b) = 1

(***************************************************************************)
(* The release numbering of the release command                            *)
(***************************************************************************)

\* The length of the run of digits that ends s.
RECURSIVE TrailingDigits(_)
TrailingDigits(s) ==
    IF Len(s) = 0 \/ ~IsDigit(s[Len(s)]) THEN 0
    ELSE 1 + TrailingDigits(SubSeq(s, 1, Len(s) - 1))

\* part.match(/r(\d+)$/): is there a match
releaseMatch(part) ==
    /\ TrailingDigits(part) > 0
    /\ Len(part) > TrailingDigits(part)
    /\ part[Len(part) - TrailingDigits(part)] = "r"

\* releaseMatch[1], the digits captured by /r(\d+)$/
releaseDigits(part) == SubSeq(part, Len(part) - TrailingDigits(part) + 1, Len(part))

\* /^r\d+$/.test(part)
simpleRelease(part) == Len(part) >= 2 /\ part[1] = "r" /\ AllDigits(Tail(part))

\* Array.prototype.find: the index of the first part that starts with the prefix, or 0.
findPrefix(versionParts, prefix) ==
    IF \E i \in 1..Len(versionParts) : startsWith(versionParts[i], prefix)
    THEN CHOOSE i \in 1..Len(versionParts) :
            /\ startsWith(versionParts[i], prefix)
            /\ \A j \in 1..(i - 1) : ~startsWith(versionParts[j], prefix)
    ELSE 0

\* The index of the first part of the form r<N>, or 0.
findSimple(versionParts) ==
    IF \E i \in 1..Len(versionParts) : simpleRelease(versionParts[i])
    THEN CHOOSE i \in 1..Len(versionParts) :
            /\ simpleRelease(versionParts[i])
            /\ \A j \in 1..(i - 1) : ~simpleRelease(versionParts[j])
    ELSE 0

\* A release that starts over at r1 whatever the current version holds.
releaseVersionStartsOver(currentVersion, prefix) ==
    LET baseVersion == split(currentVersion, "-")[1]
    IN  [ok |-> TRUE,
         version |-> baseVersion \o (IF prefix # Undefined /\ Len(prefix) > 0 THEN <<"-">> \o prefix ELSE <<>>)
                     \o <<"-", "r", "1">>]

\* The new version of the release command for a current version string and
\* config.release.prefix (Undefined or a string): [ok, version]; ok is FALSE on
\* 'Invalid release format'.
releaseVersion(currentVersion, prefix) ==
    LET versionParts == split(currentVersion, "-")
        baseVersion == versionParts[1]
    IN  IF prefix # Undefined /\ Len(prefix) > 0
        THEN LET e == findPrefix(versionParts, prefix)
             IN  IF e # 0 /\ Len(versionParts[e]) > 0
                 THEN IF ~releaseMatch(versionParts[e])
                      THEN [ok |-> FALSE, version |-> Null]
                      ELSE [ok |-> TRUE,
                            version |-> baseVersion \o <<"-">> \o prefix \o <<"-", "r">>
                                        \o numToString(parseInt(releaseDigits(versionParts[e])) + 1)]
                 ELSE [ok |-> TRUE, version |-> baseVersion \o <<"-">> \o prefix \o <<"-", "r", "1">>]
        ELSE LET m == findSimple(versionParts)
             IN  IF m # 0
                 THEN [ok |-> TRUE,
                       version |-> baseVersion \o <<"-", "r">>
                                   \o numToString(parseInt(Tail(versionParts[m])) + 1)]
                 ELSE [ok |-> TRUE, version |-> baseVersion \o <<"-", "r", "1">>]

(***************************************************************************)
(* JavaScript values, deepMerge and the configuration                      *)
(***************************************************************************)

NoProps == [k \in {} |-> k]

\* A value: its type tag, and the payload of that type (the others are blank).
JUndefined == [t |-> "undefined", b |-> FALSE, s |-> <<>>, o |-> NoProps]
JNull == [t |-> "null", b |-> FALSE, s |-> <<>>, o |-> NoProps]
JBool(x) == [t |-> "boolean", b |-> x, s |-> <<>>, o |-> NoProps]
JStr(x) == [t |-> "string", b |-> FALSE, s |-> x, o |-> NoProps]
JObj(props) == [t |-> "object", b |-> FALSE, s |-> <<>>, o |-> props]
JArr(props) == [t |-> "array", b |-> FALSE, s |-> <<>>, o |-> props]

\* typeof v === 'object' (null and arrays included)
TypeofObject(v) == v.t \in {"object", "array", "null"}

Truthy(v) ==
    CASE v.t = "boolean" -> v.b
      [] v.t = "string" -> Len(v.s) > 0
      [] v.t \in {"object", "array"} -> TRUE
      [] OTHER -> FALSE

\* v[key] of a value that is not undefined or null
Prop(v, key) == IF key \in DOMAIN v.o THEN v.o[key] ELSE JUndefined

\* {...v}: the own enumerable properties (a string spreads to its characters)
IndexKeys ==
    <<"0", "1", "2", "3", "4", "5", "6", "7", "8", "9", "10", "11", "12", "13", "14", "15",
      "16", "17", "18", "19", "20", "21", "22", "23", "24", "25", "26", "27", "28", "29">>

Spread(v) ==
    IF v.t = "string"
    THEN [k \in {IndexKeys[i] : i \in 1..Len(v.s)} |->
            JStr(<<v.s[CHOOSE i \in 1..Len(v.s) : IndexKeys[i] = k]>>)]
    ELSE v.o

\* A merge of the top level only: a group of the source replaces the group of
\* the target.
deepMergeShallow(target, source) ==
    IF ~TypeofObject(source) \/ source.t = "null" THEN source
    ELSE LET output == Spread(target)
             set == {key \in DOMAIN source.o : source.o[key].t \notin {"undefined", "null"}}
         IN  JObj([key \in DOMAIN output \cup set |->
                      IF key \in set THEN source.o[key] ELSE output[key]])

RECURSIVE deepMerge(_, _)
deepMerge(target, source) ==
    IF ~TypeofObject(source) \/ source.t = "null" THEN source
    ELSE LET output == Spread(target)
             set == {key \in DOMAIN source.o : source.o[key].t \notin {"undefined", "null"}}
             prior(key) == IF key \in DOMAIN output /\ Truthy(output[key])
                           THEN output[key] ELSE JObj(NoProps)
         IN  JObj([key \in DOMAIN output \cup set |->
                    IF key \in set
                    THEN IF source.o[key].t = "object"
                         THEN deepMerge(prior(key), source.o[key])
                         ELSE source.o[key]
                    ELSE output[key]])

\* The property names.
K_commit == "commit"
K_tag == "tag"
K_enabled == "enabled"
K_message == "message"
K_name == "name"
K_dryRun == "dryRun"
K_checkRemote == "checkRemote"
K_remote == "remote"
K_fetch == "fetch"
K_release == "release"
K_prefix == "prefix"

\* An object literal from a set of <<key, value>> pairs.
Obj(pairs) ==
    JObj([k \in {q[1] : q \in pairs} |-> (CHOOSE q \in pairs : q[1] = k)[2]])

DefaultCommitMessage ==
    <<"c", "h", "o", "r", "e", ":", " ", "v", "e", "r", "s", "i", "o", "n", " ", "%", "v">>
DefaultTagName == <<"%", "v">>

defaultConfig ==
    Obj({<<K_commit, Obj({<<K_enabled, JBool(TRUE)>>, <<K_message, JStr(DefaultCommitMessage)>>})>>,
         <<K_tag, Obj({<<K_enabled, JBool(TRUE)>>, <<K_name, JStr(DefaultTagName)>>})>>,
         <<K_dryRun, JBool(FALSE)>>,
         <<K_checkRemote, JBool(TRUE)>>})

\* Config.load(override) with the content of the config file (an empty object
\* when there is none).
ConfigLoad(current, fileConfig, override) == deepMerge(deepMerge(current, fileConfig), override)

(***************************************************************************)
(* The same merge on objects with an identity: a heap of objects, and      *)
(* cells that hold a primitive value or a reference to an object.  It      *)
(* shows which objects deepMerge writes to.                                *)
(***************************************************************************)

\* A cell: ptr is the address of an object of the heap, or 0 for the primitive
\* value val.
Primitive(v) == [ptr |-> 0, val |-> v]
Reference(a) == [ptr |-> a, val |-> JUndefined]

\* object[key] = cell, for the object at address a.
Put(h, a, key, cell) ==
    [h EXCEPT ![a] = [k \in DOMAIN h[a] \cup {key} |-> IF k = key THEN cell ELSE h[a][k]]]

\* The keys of an object, in the order for..in visits them.
RECURSIVE KeySeq(_)
KeySeq(keys) ==
    IF keys = {} THEN <<>>
    ELSE LET k == CHOOSE x \in keys : TRUE IN <<k>> \o KeySeq(keys \ {k})

\* An object literal: the value v is built on the heap h, nested objects first;
\* the result is the new heap and the cell of v.
RECURSIVE Store(_, _)
RECURSIVE StoreProps(_, _, _, _)
Store(h, v) ==
    IF v.t # "object" THEN [heap |-> h, cell |-> Primitive(v)]
    ELSE LET r == StoreProps(h, v.o, KeySeq(DOMAIN v.o), NoProps)
         IN  [heap |-> Append(r.heap, r.props), cell |-> Reference(Len(r.heap) + 1)]

StoreProps(h, o, keys, props) ==
    IF keys = <<>> THEN [heap |-> h, props |-> props]
    ELSE LET c == Store(h, o[Head(keys)])
         IN  StoreProps(c.heap, o, Tail(keys),
                        [k \in DOMAIN props \cup {Head(keys)} |->
                            IF k = Head(keys) THEN c.cell ELSE props[k]])

\* The value a cell holds, objects followed to their properties.
RECURSIVE Read(_, _)
Read(h, cell) ==
    IF cell.ptr = 0 THEN cell.val
    ELSE JObj([k \in DOMAIN h[cell.ptr] |-> Read(h, h[cell.ptr][k])])

\* {...target}: the own properties of the target, nested objects shared.
SpreadCell(h, target) ==
    IF target.ptr > 0 THEN h[target.ptr]
    ELSE [k \in DOMAIN Spread(target.val) |-> Primitive(Spread(target.val)[k])]

\* A merge that assigns into the target object itself.
RECURSIVE deepMergeOnto(_, _, _)
RECURSIVE deepMergeAt(_, _, _)
RECURSIVE mergeKeys(_, _, _, _)
deepMergeOnto(h, target, source) ==
    IF source.ptr = 0 \/ target.ptr = 0 THEN [heap |-> h, cell |-> target]
    ELSE [heap |-> mergeKeys(h, target.ptr, source.ptr, KeySeq(DOMAIN h[source.ptr])),
          cell |-> target]

\* deepMerge(target, source) on the heap: the new heap and the cell returned.
\* output is a new object; the loop assigns to it alone.
deepMergeAt(h, target, source) ==
    IF source.ptr = 0 THEN [heap |-> h, cell |-> source]
    ELSE LET output == Len(h) + 1
         IN  [heap |-> mergeKeys(Append(h, SpreadCell(h, target)), output, source.ptr,
                                 KeySeq(DOMAIN h[source.ptr])),
              cell |-> Reference(output)]

\* for (const key in source) { ... } with output at address out and source at src
mergeKeys(h, out, src, keys) ==
    IF keys = <<>> THEN h
    ELSE LET key == Head(keys)
             v == h[src][key]
             cur == IF key \in DOMAIN h[out] THEN h[out][key] ELSE Primitive(JUndefined)
             kept == cur.ptr > 0 \/ Truthy(cur.val)
             m == IF kept THEN deepMergeAt(h, cur, v)
                  ELSE deepMergeAt(Append(h, NoProps), Reference(Len(h) + 1), v)
         IN  IF v.ptr = 0 /\ v.val.t \in {"undefined", "null"}
             THEN mergeKeys(h, out, src, Tail(keys))
             ELSE IF v.ptr > 0
             THEN mergeKeys(Put(m.heap, out, key, m.cell), out, src, Tail(keys))
             ELSE mergeKeys(Put(h, out, key, v), out, src, Tail(keys))

\* Config.load on the heap: defaultConfig, the config file's value and cliConfig
\* are objects of the heap before the merges; before is that heap, heap the one
\* after, defaults the cell of defaultConfig and config the cell of this.config.
ConfigLoadAt(fileConfig, override) ==
    LET d == Store(<<>>, defaultConfig)
        f == Store(d.heap, fileConfig)
        c == Store(f.heap, override)
        first == deepMergeAt(c.heap, d.cell, f.cell)
        second == deepMergeAt(first.heap, first.cell, c.cell)
    IN  [before |-> c.heap, heap |-> second.heap, defaults |-> d.cell, config |-> second.cell]

\* No object yet.
NoHeap == [before |-> <<>>, heap |-> <<>>, defaults |-> Primitive(JUndefined), config |-> Primitive(JUndefined)]

(***************************************************************************)
(* exec and the git commands it runs                                       *)
(***************************************************************************)

\* An exec that never raises.
execNeverRaises(config, failed, stdout, ignoreReturnCode) ==
    IF Truthy(Prop(config, K_dryRun))
    THEN [threw |-> FALSE, stdout |-> <<>>, spawned |-> FALSE]
    ELSE [threw |-> FALSE, stdout |-> IF failed THEN <<>> ELSE stdout, spawned |-> TRUE]

\* exec(command, args, options) for a command whose process would fail (spawn
\* error or nonzero status) or print stdout: what exec returns or throws, and
\* whether the command was started at all.
\* An exec without the dry-run guard: it starts the command in a dry run too.
execInDryRun(config, failed, stdout, ignoreReturnCode) ==
    IF ~ignoreReturnCode /\ failed
    THEN [threw |-> TRUE, stdout |-> <<>>, spawned |-> TRUE]
    ELSE [threw |-> FALSE, stdout |-> IF failed THEN <<>> ELSE stdout, spawned |-> TRUE]

exec(config, failed, stdout, ignoreReturnCode) ==
    IF Truthy(Prop(config, K_dryRun))
    THEN [threw |-> FALSE, stdout |-> <<>>, spawned |-> FALSE]
    ELSE IF ~ignoreReturnCode /\ failed
    THEN [threw |-> TRUE, stdout |-> <<>>, spawned |-> TRUE]
    ELSE [threw |-> FALSE, stdout |-> IF failed THEN <<>> ELSE stdout, spawned |-> TRUE]

(***************************************************************************)
(* The command line                                                        *)
(***************************************************************************)

\* The keys commander gives the parsed options.
K_patch == "patch"
K_minor == "minor"
K_major == "major"
K_prerelease == "prerelease"
K_version == "version"
K_tagOnly == "tagOnly"
K_commitMessage == "commitMessage"
K_tagName == "tagName"
K_remoteFetch == "remoteFetch"
\* The keys the older command and the tag command read.
K_commit_message == "commit.message"
K_tag_name == "tag-name"

Flag(key) == <<key, JBool(TRUE)>>

\* The options of a run: the version command sets remoteFetch unless
\* --no-remote-fetch is given.
Options(cmd, pairs) ==
    Obj(pairs \cup (IF cmd = "version" /\ ~\E q \in pairs : q[1] = K_remoteFetch
                    THEN {<<K_remoteFetch, JBool(TRUE)>>} ELSE {}))

\* One run of the program: the command (the version, release and tag commands;
\* "main", the single command with --tag-only; "bumpVersion", the first command,
\* with the bump type as its argument), the argument and the options.
Invocation(cmd, type, pairs) == [cmd |-> cmd, type |-> type, options |-> Options(cmd, pairs)]

\* The selections of a bump mode: none, each one, and two at once.
BumpSelections ==
    { {}, {Flag(K_patch)}, {Flag(K_minor)}, {Flag(K_major)}, {Flag(K_prerelease)},
      {<<K_prerelease, JStr(<<"b", "e", "t", "a">>)>>},
      {<<K_version, JStr(<<"2", ".", "0", ".", "0">>)>>}, {<<K_version, JStr(<<"1", ".", "2">>)>>},
      {Flag(K_patch), Flag(K_minor)}, {Flag(K_major), <<K_version, JStr(<<"2", ".", "0", ".", "0">>)>>} }

TagOnlySelections == { {Flag(K_tagOnly)}, {Flag(K_tagOnly), Flag(K_patch)} }

Prefixes == {JUndefined, JStr(<<"q", "a">>), JStr(<<"s", "t", "a", "g", "e">>)}

\* With and without --dry-run.
DryRunChoices == { {}, {Flag(K_dryRun)} }

\* The selections tried with the older commands.
OlderSelections ==
    { {}, {Flag(K_patch)}, {<<K_version, JStr(<<"2", ".", "0", ".", "0">>)>>}, {Flag(K_patch), Flag(K_minor)} }

\* --commit-message and --tag-name with templates of their own.
CustomTemplates ==
    {<<K_commitMessage, JStr(<<"r", "e", "l", "e", "a", "s", "e", " ", "%", "v">>)>>, <<K_tagName, JStr(<<"v", "%", "v">>)>>}

Invocations ==
    {Invocation("version", "", sel \cup dry) : sel \in BumpSelections, dry \in DryRunChoices}
    \cup {Invocation("version", "", {Flag(K_minor)} \cup CustomTemplates)}
    \cup {Invocation("version", "", {Flag(K_patch), <<K_remoteFetch, JBool(FALSE)>>})}
    \cup {Invocation("release", "", (IF pre = JUndefined THEN {} ELSE {<<K_prefix, pre>>}) \cup dry) :
        pre \in Prefixes, dry \in DryRunChoices}
    \cup {Invocation("tag", "", dry) : dry \in DryRunChoices}
    \cup {Invocation("main", "", sel \cup dry) :
        sel \in OlderSelections \cup TagOnlySelections, dry \in DryRunChoices}
    \cup {Invocation("bumpVersion", type, dry) : type \in {"minor", "bogus"}, dry \in DryRunChoices}

(***************************************************************************)
(* The resolver: from the options and the manifest to the new version      *)
(***************************************************************************)

\* The bump options that are specified, in the order the program lists them.
versionBumpOptions(options) ==
    SelectSeq(<<IF Truthy(Prop(options, K_patch)) THEN "patch" ELSE "",
                IF Truthy(Prop(options, K_minor)) THEN "minor" ELSE "",
                IF Truthy(Prop(options, K_major)) THEN "major" ELSE "",
                IF Prop(options, K_prerelease).t # "undefined" THEN "prerelease" ELSE "",
                IF Truthy(Prop(options, K_version)) THEN "version" ELSE "">>,
              LAMBDA x : x # "")

\* The release type the options select ("" when none does).
bumpType(options) ==
    IF Truthy(Prop(options, K_version)) THEN ""
    ELSE IF Prop(options, K_prerelease).t # "undefined" THEN "prerelease"
    ELSE IF Truthy(Prop(options, K_major)) THEN "major"
    ELSE IF Truthy(Prop(options, K_minor)) THEN "minor"
    ELSE IF Truthy(Prop(options, K_patch)) THEN "patch"
    ELSE ""

\* The identifier as given, with no default.
preidAsGiven(options) ==
    IF Prop(options, K_prerelease).t = "string" THEN Prop(options, K_prerelease).s ELSE Undefined

\* preid || 'rc'
preid(options) ==
    IF Prop(options, K_prerelease).t = "string" /\ Len(Prop(options, K_prerelease).s) > 0
    THEN Prop(options, K_prerelease).s
    ELSE <<"r", "c">>

\* The CLI overrides each command hands to Config.load.
cliConfig(cmd, options) ==
    CASE cmd = "version" ->
            Obj({<<K_commit, Obj({<<K_message, Prop(options, K_commitMessage)>>})>>,
                 <<K_tag, Obj({<<K_name, Prop(options, K_tagName)>>})>>,
                 <<K_dryRun, Prop(options, K_dryRun)>>,
                 <<K_remote, Obj({<<K_fetch, Prop(options, K_remoteFetch)>>})>>})
      [] cmd = "release" ->
            Obj({<<K_commit, Obj({<<K_message, Prop(options, K_commitMessage)>>})>>,
                 <<K_tag, Obj({<<K_name, Prop(options, K_tagName)>>})>>,
                 <<K_release, Obj({<<K_prefix, Prop(options, K_prefix)>>})>>,
                 <<K_dryRun, Prop(options, K_dryRun)>>})
      [] cmd = "tag" ->
            Obj({<<K_tag, Obj({<<K_name, Prop(options, K_tag_name)>>})>>,
                 <<K_dryRun, Prop(options, K_dryRun)>>})
      [] OTHER ->
            Obj({<<K_commit, Obj({<<K_message, Prop(options, K_commit_message)>>})>>,
                 <<K_dryRun, Prop(options, K_dryRun)>>})

\* A property of a group of the configuration; reading it throws a TypeError when
\* the group is missing.
GroupMissing(config, group) == Prop(config, group).t \in {"undefined", "null"}
Setting(config, group, key) == Prop(Prop(config, group), key)

\* The outcome of the steps before the first git command: exit (status 1) or
\* go on with a new version; loaded tells whether Config.load has run.
Stop(loaded) == [exit |-> TRUE, loaded |-> loaded, newVersion |-> Null]
GoOn(v) == [exit |-> FALSE, loaded |-> TRUE, newVersion |-> v]

\* A version command that goes on with the version it read, never bumping it.
resolveVersionKeeps(options, packageVersion) == GoOn(packageVersion)

\* The version command.
resolveVersion(options, packageVersion) ==
    IF Len(versionBumpOptions(options)) = 0 THEN Stop(FALSE)
    ELSE IF Len(versionBumpOptions(options)) > 1 THEN Stop(FALSE)
    ELSE IF Truthy(Prop(options, K_version))
    THEN IF ~SemverValid(Prop(options, K_version).s) THEN Stop(FALSE)
         ELSE GoOn(Prop(options, K_version).s)
    ELSE IF bumpType(options) = "" THEN Stop(TRUE)
    ELSE IF SemverInc(packageVersion, bumpType(options), preid(options)) = Null THEN Stop(TRUE)
    ELSE GoOn(SemverInc(packageVersion, bumpType(options), preid(options)))

\* A single command that goes on with the version it read.
resolveMainKeeps(options, packageVersion) == GoOn(packageVersion)

\* The single command with --tag-only.
resolveMain(options, packageVersion) ==
    IF Len(versionBumpOptions(options)) = 0 /\ ~Truthy(Prop(options, K_tagOnly)) THEN Stop(FALSE)
    ELSE IF Len(versionBumpOptions(options)) > 1 THEN Stop(FALSE)
    ELSE IF Truthy(Prop(options, K_version)) /\ ~SemverValid(Prop(options, K_version).s)
    THEN Stop(FALSE)
    ELSE IF Truthy(Prop(options, K_tagOnly))
    THEN IF packageVersion = Undefined \/ Len(packageVersion) = 0 THEN Stop(TRUE)
         ELSE GoOn(packageVersion)
    ELSE IF Truthy(Prop(options, K_version)) THEN GoOn(Prop(options, K_version).s)
    ELSE IF bumpType(options) = "" THEN Stop(TRUE)
    ELSE IF SemverInc(packageVersion, bumpType(options), preid(options)) = Null THEN Stop(TRUE)
    ELSE GoOn(SemverInc(packageVersion, bumpType(options), preid(options)))

\* The first command: bumpVersion(type) up to the version computation.
resolveBump(type, packageVersion) ==
    IF SemverInc(packageVersion, type, Undefined) = Null THEN Stop(TRUE)
    ELSE GoOn(SemverInc(packageVersion, type, Undefined))

\* The release command (currentVersion.split throws on a missing version).
resolveRelease(config, packageVersion) ==
    IF packageVersion = Undefined \/ GroupMissing(config, K_release) THEN Stop(TRUE)
    ELSE LET prefix == IF Setting(config, K_release, K_prefix).t = "string"
                       THEN Setting(config, K_release, K_prefix).s ELSE Undefined
         IN  IF releaseVersion(packageVersion, prefix).ok
             THEN GoOn(releaseVersion(packageVersion, prefix).version)
             ELSE Stop(TRUE)

\* A tag command that does not look at tag.enabled.
resolveTagAlways(config, packageVersion) == GoOn(packageVersion)

\* The tag command.
resolveTag(config, packageVersion) ==
    IF packageVersion = Undefined \/ Len(packageVersion) = 0 THEN Stop(TRUE)
    ELSE IF GroupMissing(config, K_tag) \/ ~Truthy(Setting(config, K_tag, K_enabled)) THEN Stop(TRUE)
    ELSE GoOn(packageVersion)

resolve(cmd, type, options, config, packageVersion) ==
    CASE cmd = "version" -> resolveVersion(options, packageVersion)
      [] cmd = "main" -> resolveMain(options, packageVersion)
      [] cmd = "bumpVersion" -> resolveBump(type, packageVersion)
      [] cmd = "release" -> resolveRelease(config, packageVersion)
      [] cmd = "tag" -> resolveTag(config, packageVersion)

(***************************************************************************)
(* The state                                                               *)
(***************************************************************************)

VARIABLES
    plan,        \* the runs still to be made: a sequence of invocations
    runs,        \* the number of runs started
    proc,        \* the running process: position, options, configuration, locals
    disk,        \* package.json in the working directory
    repo,        \* the git repository
    fileConfig,  \* the content of verz.config.json (an empty object when absent)
    trace,       \* the effects of the current run, in order
    pre,         \* the manifest and the repository when the current run started
    history      \* the processes of the earlier runs, as they ended

vars == <<plan, runs, proc, disk, repo, fileConfig, trace, pre, history>>

\* package.json: its version field, the indentation of its first indented line
\* and the rest of its content (as committed, or edited by the user).
Manifest(version, indent) == [version |-> version, indent |-> indent, other |-> "committed"]
Edited(m) == [m EXCEPT !.other = "edited"]

\* rev-list cannot name origin/<branch>.
NoRemoteBranch == -1

\* The process before it has read anything.
NewProcess(inv) ==
    [pc |-> "start", cmd |-> inv.cmd, type |-> inv.type, options |-> inv.options,
     config |-> defaultConfig, packageJson |-> Manifest(Undefined, <<>>),
     newVersion |-> Undefined, hasChanges |-> FALSE, exitCode |-> -1, reported |-> Undefined,
     stopped |-> "", heap |-> NoHeap]

NoProcess ==
    [pc |-> "idle", cmd |-> "", type |-> "", options |-> JObj(NoProps),
     config |-> defaultConfig, packageJson |-> Manifest(Undefined, <<>>),
     newVersion |-> Undefined, hasChanges |-> FALSE, exitCode |-> -1, reported |-> Undefined,
     stopped |-> "", heap |-> NoHeap]

\* A repository in which package.json is committed as m; dirty tells how the file
\* in the working directory differs from it.
Repository(m, dirty, staged, unstaged, remote, stash) ==
    [ok |-> TRUE, head |-> m, index |-> IF dirty = "staged" THEN Edited(m) ELSE m,
     staged |-> staged, unstaged |-> unstaged, remote |-> remote,
     stash |-> stash, commits |-> <<>>, tags |-> {}]

\* No usable git: every git command fails to run.
NoRepository(m) ==
    [ok |-> FALSE, head |-> m, index |-> m, staged |-> FALSE, unstaged |-> FALSE,
     remote |-> NoRemoteBranch, stash |-> <<>>, commits |-> <<>>, tags |-> {}]

\* A stash entry: what it saved, and the run that pushed it (0: before any run).
StashEntry(run, r, d) ==
    [run |-> run, staged |-> r.staged, unstaged |-> r.unstaged, manifest |-> d, index |-> r.index]

OlderStash == <<[run |-> 0, staged |-> FALSE, unstaged |-> TRUE,
                 manifest |-> Manifest(Undefined, <<>>), index |-> Manifest(Undefined, <<>>)]>>

\* The stashes found before any run: up to MaxStash older entries.
MaxStash == 1

OlderStashes == {[i \in 1..n |-> OlderStash[1]] : n \in 0..MaxStash}

\* The ways the working tree differs from the last commit: package.json clean,
\* edited or edited and staged; other files with staged and unstaged changes.
Trees ==
    {[dirty |-> d, staged |-> a, unstaged |-> b] :
        d \in {"clean", "unstaged"}, a \in BOOLEAN, b \in BOOLEAN}
    \cup {[dirty |-> "staged", staged |-> FALSE, unstaged |-> FALSE]}

\* The states of the remote branch that matter to a plan: only the version
\* command looks at it.
Remotes(p) ==
    IF \E i \in 1..Len(p) : p[i].cmd = "version" THEN {NoRemoteBranch, 0, 1} ELSE {0}

\* The initial states for given plans, committed manifests, config files and
\* stashes.
InitOf(plans, manifests, fileConfigs, stashes) ==
    /\ plan \in plans
    /\ runs = 0
    /\ proc = NoProcess
    /\ fileConfig \in fileConfigs
    /\ trace = <<>>
    /\ \E m \in manifests :
         \/ /\ repo = NoRepository(m)
            /\ disk = m
         \/ \E tree \in Trees, remote \in Remotes(plan), stash \in stashes :
              /\ repo = Repository(m, tree.dirty, tree.staged, tree.unstaged, remote, stash)
              /\ disk = IF tree.dirty = "clean" THEN m ELSE Edited(m)
    /\ pre = [disk |-> disk, repo |-> repo]
    /\ history = <<>>

TwoSpaces == <<" ", " ">>

FileConfigs ==
    { JObj(NoProps),
      Obj({<<K_commit, Obj({<<K_enabled, JBool(FALSE)>>})>>}),
      Obj({<<K_tag, Obj({<<K_enabled, JBool(FALSE)>>})>>}),
      Obj({<<K_dryRun, JBool(TRUE)>>}) }

Init ==
    InitOf({<<i>> : i \in Invocations}, {Manifest(<<"1", ".", "4", ".", "2">>, TwoSpaces)}, FileConfigs,
           OlderStashes)

(***************************************************************************)
(* The steps of a run                                                      *)
(***************************************************************************)

\* An end of the process that always reports success.
ExitClean(p, code) == [p EXCEPT !.pc = "done", !.exitCode = 0, !.stopped = p.pc]

\* process.exit(code), or the end of the action; stopped keeps the step at which
\* the run ended.
Exit(p, code) == [p EXCEPT !.pc = "done", !.exitCode = code, !.stopped = p.pc]

DryRun == Truthy(Prop(proc.config, K_dryRun))

\* The program is started with the next invocation of the plan.
Start ==
    /\ proc.pc \in {"idle", "done"}
    /\ plan # <<>>
    /\ proc' = NewProcess(Head(plan))
    /\ plan' = Tail(plan)
    /\ runs' = runs + 1
    /\ trace' = <<>>
    /\ pre' = [disk |-> disk, repo |-> repo]
    /\ history' = IF proc.pc = "done" THEN Append(history, proc) ELSE history
    /\ UNCHANGED <<disk, repo, fileConfig>>

\* The position after the resolver, by command.
AfterResolve(cmd) ==
    CASE cmd = "version" -> "remote"
      [] cmd = "main" -> "status"
      [] cmd = "bumpVersion" -> "snapshot"
      [] cmd = "release" -> "write"
      [] cmd = "tag" -> "tagonly"

\* Option validation, Config.load, reading package.json and computing the new
\* version.
Resolve ==
    /\ proc.pc = "start"
    /\ LET loaded == ConfigLoad(defaultConfig, fileConfig, cliConfig(proc.cmd, proc.options))
           r == resolve(proc.cmd, proc.type, proc.options, loaded, disk.version)
           p == [proc EXCEPT !.config = IF r.loaded THEN loaded ELSE defaultConfig,
                             !.packageJson = IF r.loaded THEN disk ELSE @,
                             !.heap = IF r.loaded
                                      THEN ConfigLoadAt(fileConfig, cliConfig(proc.cmd, proc.options))
                                      ELSE @,
                             !.newVersion = r.newVersion]
       IN  proc' = IF r.exit THEN Exit(p, 1) ELSE [p EXCEPT !.pc = AfterResolve(proc.cmd)]
    /\ UNCHANGED <<plan, runs, disk, repo, fileConfig, trace, pre, history>>

\* The effects of a run are recorded when they really happen: a command that
\* was started, a file that was written.
Effect(name, ok) == [op |-> name, ok |-> ok]
Did(e, name) == IF e.spawned THEN <<Effect(name, ~e.threw)>> ELSE <<>>

\* A count of commits that takes a failing rev-list for a branch that is behind.
behindOrUnknown(revList) == revList.threw \/ parseInt(revList.stdout) > 0

\* try { commitsBehind = parseInt(rev-list); commitsBehind > 0 } catch (_) { skip }
behind(revList) == ~revList.threw /\ parseInt(revList.stdout) > 0

\* The check that the branch is up to date with its remote (version command).
RemoteCheck ==
    /\ proc.pc = "remote"
    /\ \E network \in BOOLEAN :
         LET fetch == exec(proc.config, ~repo.ok \/ ~network, <<>>, FALSE)
             revParse == exec(proc.config, ~repo.ok, <<"m", "a", "i", "n", "\n">>, FALSE)
             revList == exec(proc.config, ~repo.ok \/ repo.remote = NoRemoteBranch,
                             IF repo.remote = NoRemoteBranch THEN <<>>
                             ELSE numToString(repo.remote) \o <<"\n">>, FALSE)
         IN  IF ~Truthy(Setting(proc.config, K_remote, K_fetch))
             THEN /\ proc' = [proc EXCEPT !.pc = "status"]
                  /\ trace' = trace
             ELSE IF fetch.threw
             THEN /\ proc' = Exit(proc, 1)
                  /\ trace' = trace \o Did(fetch, "fetch")
             ELSE IF revParse.threw
             THEN /\ proc' = Exit(proc, 1)
                  /\ trace' = trace \o Did(fetch, "fetch") \o Did(revParse, "rev-parse")
             ELSE /\ proc' = IF behind(revList)
                              THEN Exit(proc, 1) ELSE [proc EXCEPT !.pc = "status"]
                  /\ trace' = trace \o Did(fetch, "fetch") \o Did(revParse, "rev-parse")
                                    \o Did(revList, "rev-list")
    /\ UNCHANGED <<plan, runs, disk, repo, fileConfig, pre, history>>

\* git status --porcelain package.json: empty iff the file is as committed.
statusOutput == IF repo.head = repo.index /\ repo.index = disk THEN <<>> ELSE <<"m", " ", "p", "a", "c", "k", "a", "g", "e", ".", "j", "s", "o", "n", "\n">>

\* The check that package.json has no uncommitted changes.
ManifestCheck ==
    /\ proc.pc = "status"
    /\ LET packageJsonStatus == exec(proc.config, ~repo.ok, statusOutput, TRUE)
       IN  /\ proc' = IF Len(packageJsonStatus.stdout) > 0
                       THEN Exit(proc, 1) ELSE [proc EXCEPT !.pc = "snapshot"]
           /\ trace' = trace \o Did(packageJsonStatus, "status")
    /\ UNCHANGED <<plan, runs, disk, repo, fileConfig, pre, history>>

\* git diff HEAD: the changes of tracked files that are not committed.
diffOutput == IF repo.staged \/ repo.unstaged \/ disk # repo.head THEN <<"d", "i", "f", "f", "\n">> ELSE <<>>

\* A stash push that saves nothing.
StashPushNothing(r) == r

\* git stash push --keep-index: the changes are saved and the working tree is
\* set back to the index.
StashPush(r) ==
    [r EXCEPT !.stash = <<StashEntry(runs, r, disk)>> \o @, !.unstaged = FALSE]

\* The stash of the uncommitted changes.
Snapshot ==
    /\ proc.pc = "snapshot"
    /\ \E pushes \in BOOLEAN :
         LET diff == exec(proc.config, ~repo.ok, diffOutput, TRUE)
             hasChanges == Len(diff.stdout) > 0
             push == exec(proc.config, ~repo.ok \/ ~pushes, <<>>, FALSE)
             next == IF proc.cmd = "main" /\ Truthy(Prop(proc.options, K_tagOnly))
                     THEN "tagonly" ELSE "write"
         IN  IF ~hasChanges
             THEN /\ proc' = [proc EXCEPT !.pc = next]
                  /\ trace' = trace \o Did(diff, "diff")
                  /\ UNCHANGED <<repo, disk>>
             ELSE IF push.threw
             THEN /\ proc' = Exit([proc EXCEPT !.hasChanges = TRUE], 1)
                  /\ trace' = trace \o Did(diff, "diff")
                  /\ UNCHANGED <<repo, disk>>
             ELSE /\ proc' = [proc EXCEPT !.pc = next, !.hasChanges = TRUE]
                  /\ trace' = trace \o Did(diff, "diff") \o Did(push, "stash push")
                  /\ repo' = StashPush(repo)
                  /\ disk' = repo.index
    /\ UNCHANGED <<plan, runs, fileConfig, pre, history>>

\* The indentation the file is written with: the one found in the file read, two
\* spaces when none is found; the release command always writes two spaces.
indent(cmd, packageContent) ==
    IF cmd = "release" THEN TwoSpaces
    ELSE IF Len(packageContent.indent) > 0 THEN packageContent.indent
    ELSE TwoSpaces

\* writeFileSync of package.json with the new version, unless dry run.
Write ==
    /\ proc.pc = "write"
    /\ \E written \in BOOLEAN :
         IF DryRun
         THEN /\ proc' = [proc EXCEPT !.pc = "add",
                                      !.reported = IF proc.cmd = "release" THEN proc.newVersion ELSE @]
              /\ UNCHANGED <<disk, trace>>
         ELSE IF ~written
         THEN /\ proc' = Exit(proc, 1)
              /\ trace' = Append(trace, Effect("write", FALSE))
              /\ UNCHANGED disk
         ELSE /\ proc' = [proc EXCEPT !.pc = "add",
                                      !.reported = IF proc.cmd = "release" THEN proc.newVersion ELSE @]
              /\ disk' = [proc.packageJson EXCEPT !.version = proc.newVersion,
                                                  !.indent = indent(proc.cmd, proc.packageJson)]
              /\ trace' = Append(trace, Effect("write", TRUE))
    /\ UNCHANGED <<plan, runs, repo, fileConfig, pre, history>>

\* Where a failure of stage, commit or tag leads: the release command exits, the
\* others go to the restoration of the stash.
\* A failure that leaves the action at once, as it would with no finally block.
FailedWithoutFinally(p) == Exit(p, 1)

Failed(p) == IF p.cmd = "release" THEN Exit(p, 1) ELSE [p EXCEPT !.pc = "pop"]

\* git add package.json
Add ==
    /\ proc.pc = "add"
    /\ \E staged \in BOOLEAN :
         LET add == exec(proc.config, ~repo.ok \/ ~staged, <<>>, FALSE)
         IN  /\ proc' = IF add.threw THEN Failed(proc) ELSE [proc EXCEPT !.pc = "commit"]
             /\ trace' = trace \o Did(add, "add")
             /\ repo' = IF add.spawned /\ ~add.threw THEN [repo EXCEPT !.index = disk] ELSE repo
    /\ UNCHANGED <<plan, runs, disk, fileConfig, pre, history>>

\* No command looks at commit.enabled / tag.enabled.
Untoggled(cmd) == FALSE

\* Does the command look at commit.enabled / tag.enabled
Toggled(cmd) == cmd \in {"version", "release"}

\* git commit: everything in the index is committed.
GitCommit(r, message) ==
    [r EXCEPT !.commits = Append(@, [message |-> message, manifest |-> r.index,
                                      manifestChanged |-> r.index # r.head,
                                      staged |-> r.staged, run |-> runs]),
              !.head = r.index, !.staged = FALSE]

\* git commit -m <message>, when commit.enabled
Commit ==
    /\ proc.pc = "commit"
    /\ \E commits \in BOOLEAN :
         LET message == Setting(proc.config, K_commit, K_message)
             commitMessage == replace(message.s, proc.newVersion)
             nothing == repo.index = repo.head /\ ~repo.staged
             commit == exec(proc.config, ~repo.ok \/ ~commits \/ nothing, <<>>, FALSE)
         IN  IF GroupMissing(proc.config, K_commit)
             THEN /\ proc' = Failed(proc)
                  /\ UNCHANGED <<repo, trace>>
             ELSE IF Toggled(proc.cmd) /\ ~Truthy(Setting(proc.config, K_commit, K_enabled))
             THEN /\ proc' = [proc EXCEPT !.pc = "tag"]
                  /\ UNCHANGED <<repo, trace>>
             ELSE IF message.t # "string"
             THEN /\ proc' = Failed(proc)
                  /\ UNCHANGED <<repo, trace>>
             ELSE /\ proc' = IF commit.threw THEN Failed(proc) ELSE [proc EXCEPT !.pc = "tag"]
                  /\ trace' = trace \o Did(commit, "commit")
                  /\ repo' = IF commit.spawned /\ ~commit.threw
                              THEN GitCommit(repo, commitMessage) ELSE repo
    /\ UNCHANGED <<plan, runs, disk, fileConfig, pre, history>>

\* A tag step that is followed by the commit step.
TaggedThenCommits(p) == [p EXCEPT !.pc = "commit"]

\* The position after the tag step: the release command is done.
Tagged(p) ==
    IF p.cmd = "release" THEN Exit(p, 0)
    ELSE [p EXCEPT !.pc = "pop", !.reported = IF p.cmd = "version" THEN p.newVersion ELSE @]

\* git tag <name>, when tag.enabled
Tag ==
    /\ proc.pc = "tag"
    /\ \E tags \in BOOLEAN :
         LET name == Setting(proc.config, K_tag, K_name)
             tagName == replace(name.s, proc.newVersion)
             tag == exec(proc.config, ~repo.ok \/ ~tags \/ tagName \in repo.tags, <<>>, FALSE)
         IN  IF GroupMissing(proc.config, K_tag)
             THEN /\ proc' = Failed(proc)
                  /\ UNCHANGED <<repo, trace>>
             ELSE IF Toggled(proc.cmd) /\ ~Truthy(Setting(proc.config, K_tag, K_enabled))
             THEN /\ proc' = Tagged(proc)
                  /\ UNCHANGED <<repo, trace>>
             ELSE IF name.t # "string"
             THEN /\ proc' = Failed(proc)
                  /\ UNCHANGED <<repo, trace>>
             ELSE /\ proc' = IF tag.threw THEN Failed(proc) ELSE Tagged(proc)
                  /\ trace' = trace \o Did(tag, "tag")
                  /\ repo' = IF tag.spawned /\ ~tag.threw
                              THEN [repo EXCEPT !.tags = @ \cup {tagName}] ELSE repo
    /\ UNCHANGED <<plan, runs, disk, fileConfig, pre, history>>

\* git stash pop: the newest entry is applied to the working tree and dropped.
StashPop(r) == [r EXCEPT !.stash = Tail(@), !.unstaged = @ \/ Head(r.stash).unstaged]

\* The finally block: the stash is popped when this run has pushed one; then the
\* action ends.
Pop ==
    /\ proc.pc = "pop"
    /\ \E pops \in BOOLEAN :
         LET pop == exec(proc.config, ~repo.ok \/ ~pops \/ repo.stash = <<>>, <<>>, FALSE)
             ended == Exit([proc EXCEPT !.reported = IF proc.cmd \in {"main", "bumpVersion"}
                                                     THEN proc.newVersion ELSE @], 0)
         IN  IF ~proc.hasChanges
             THEN /\ proc' = ended
                  /\ UNCHANGED <<repo, disk, trace>>
             ELSE IF pop.threw
             THEN /\ proc' = Exit(proc, 1)
                  /\ trace' = trace \o Did(pop, "stash pop")
                  /\ UNCHANGED <<repo, disk>>
             ELSE /\ proc' = ended
                  /\ trace' = trace \o Did(pop, "stash pop")
                  /\ repo' = IF pop.spawned THEN StashPop(repo) ELSE repo
                  /\ disk' = IF pop.spawned /\ Head(repo.stash).manifest.other = "edited"
                              THEN Edited(disk) ELSE disk
    /\ UNCHANGED <<plan, runs, fileConfig, pre, history>>

\* The tag of the current version: the tag command, and --tag-only of the single
\* command (which leaves through its catch when git tag fails).
TagOnly ==
    /\ proc.pc = "tagonly"
    /\ \E tags \in BOOLEAN :
         LET name == Setting(proc.config, K_tag, K_name)
             tagName == replace(name.s, proc.newVersion)
             tag == exec(proc.config, ~repo.ok \/ ~tags \/ tagName \in repo.tags, <<>>, FALSE)
         IN  IF GroupMissing(proc.config, K_tag) \/ name.t # "string"
             THEN /\ proc' = Exit(proc, 1)
                  /\ UNCHANGED <<repo, trace>>
             ELSE /\ proc' = IF tag.threw THEN Exit(proc, 1)
                              ELSE Exit([proc EXCEPT !.reported = proc.newVersion], 0)
                  /\ trace' = trace \o Did(tag, "tag")
                  /\ repo' = IF tag.spawned /\ ~tag.threw
                              THEN [repo EXCEPT !.tags = @ \cup {tagName}] ELSE repo
    /\ UNCHANGED <<plan, runs, disk, fileConfig, pre, history>>

Next ==
    \/ Start
    \/ Resolve
    \/ RemoteCheck
    \/ ManifestCheck
    \/ Snapshot
    \/ Write
    \/ Add
    \/ Commit
    \/ Tag
    \/ Pop
    \/ TagOnly

Spec == Init /\ [][Next]_vars

(***************************************************************************)
(* Runs of one command after another                                       *)
(***************************************************************************)

\* The number of runs of a plan.
MaxRuns == 3

\* A dry run followed by the same invocation without --dry-run.
WithDryRun(inv) == [inv EXCEPT !.options = Obj({<<k, inv.options.o[k]>> : k \in DOMAIN inv.options.o}
                                                \cup {Flag(K_dryRun)})]

RealInvocations == {inv \in Invocations : ~Truthy(Prop(inv.options, K_dryRun))}

InitPreview ==
    InitOf({<<WithDryRun(inv), inv>> : inv \in RealInvocations}, {Manifest(<<"1", ".", "4", ".", "2">>, TwoSpaces)},
           {JObj(NoProps)}, {<<>>})

SpecPreview == InitPreview /\ [][Next]_vars

\* A repository with nothing uncommitted, up to date with its remote.
CleanRepository(m) == Repository(m, "clean", FALSE, FALSE, 0, <<>>)

\* Release after release: up to MaxRuns runs of the release command with one
\* prefix, each reading the manifest the run before left.
ReleaseVersions == {<<"1", ".", "2", ".", "0">>, <<"1", ".", "2", ".", "0", "-", "q", "a", "-", "r", "2">>, <<"1", ".", "2", ".", "0", "-", "r", "4">>, <<"1", ".", "2", ".", "0", "-", "q", "a", "-", "r", "9", "-", "s", "t", "a", "g", "e", "-", "r", "1">>, <<"1", ".", "2", ".", "0", "-", "r", "c", ".", "1">>}

InitRelease ==
    /\ \E pre_ \in Prefixes, n \in 1..MaxRuns :
         plan = [i \in 1..n |->
                    Invocation("release", "", IF pre_ = JUndefined THEN {} ELSE {<<K_prefix, pre_>>})]
    /\ runs = 0
    /\ proc = NoProcess
    /\ fileConfig = JObj(NoProps)
    /\ trace = <<>>
    /\ \E v \in ReleaseVersions :
         /\ repo = CleanRepository(Manifest(v, TwoSpaces))
         /\ disk = Manifest(v, TwoSpaces)
    /\ pre = [disk |-> disk, repo |-> repo]
    /\ history = <<>>

NextRelease ==
    \/ Start
    \/ Resolve
    \/ Write
    \/ Add
    \/ Commit
    \/ Tag

SpecRelease == InitRelease /\ [][NextRelease]_vars

\* The resolver on many current versions: one run of every invocation in a clean
\* repository.
ResolveVersions ==
    {<<"1", ".", "4", ".", "2">>, <<"0", ".", "0", ".", "0">>, <<"1", ".", "2", ".", "0">>, <<"1", ".", "0", ".", "9">>, <<"2", ".", "0", ".", "0", "-", "r", "c", ".", "1">>, <<"1", ".", "2", ".", "3", "-", "r", "c", ".", "9">>, <<"1", ".", "2", ".", "0", "-", "b", "e", "t", "a", ".", "0">>,
     <<"1", ".", "2", ".", "3", "-", "r", "c">>, <<"1", ".", "2", ".", "0", "-", "r", "c", ".", "x", ".", "3">>, <<"1", ".", "0", ".", "0", "-", "0">>, <<"1", ".", "2", ".", "0", "-", "q", "a", "-", "r", "1">>, <<"1", ".", "2", ".", "0", "-", "q", "a", "-", "r", "2">>, <<"1", ".", "2", ".", "0", "-", "r", "9">>,
     <<"1", ".", "2", ".", "0", "-", "r", "c", ".", "1", ".", "5">>, <<"2", ".", "0", ".", "0">>, <<"3", ".", "1", ".", "0">>}

\* The highest prerelease counter of the current versions 1.4.2-beta.<n>.
MaxCounter == 1

CountedVersions == {<<"1", ".", "4", ".", "2", "-", "b", "e", "t", "a", ".">> \o numToString(n) : n \in 0..MaxCounter}

InitResolve ==
    /\ plan \in {<<i>> : i \in Invocations}
    /\ runs = 0
    /\ proc = NoProcess
    /\ fileConfig = JObj(NoProps)
    /\ trace = <<>>
    /\ \E v \in ResolveVersions \cup CountedVersions :
         /\ repo = CleanRepository(Manifest(v, TwoSpaces))
         /\ disk = Manifest(v, TwoSpaces)
    /\ pre = [disk |-> disk, repo |-> repo]
    /\ history = <<>>

SpecResolve == InitResolve /\ [][Next]_vars

\* What the config file and the manifest hold: one run in a clean repository for
\* every content of verz.config.json and of package.json that the program tells
\* apart.
Tab == <<"\t">>
FourSpaces == <<" ", " ", " ", " ">>

\* What fileLoad can return: the objects of FileConfigs, objects with a custom
\* template, with a null leaf and with a null group, and, as JSON.parse accepts
\* any JSON text, null and a string.
ConfigSources ==
    FileConfigs
    \cup { Obj({<<K_commit, Obj({<<K_message, JStr(<<"c", "i", " ", "%", "v">>)>>})>>}),
           Obj({<<K_tag, Obj({<<K_name, JNull>>, <<K_enabled, JBool(FALSE)>>})>>}),
           Obj({<<K_commit, JNull>>}),
           JNull,
           JStr(<<"x">>) }

\* package.json indented with two spaces, a tab, four spaces or not at all, and
\* one without a version field.
ManifestFiles ==
    {Manifest(<<"1", ".", "4", ".", "2">>, ind) : ind \in {TwoSpaces, Tab, FourSpaces, <<>>}}
    \cup {Manifest(Undefined, TwoSpaces), Manifest(Undefined, Tab)}

FileInvocations ==
    { Invocation("version", "", {Flag(K_patch)}),
      Invocation("version", "", {Flag(K_prerelease)}),
      Invocation("version", "", {<<K_version, JStr(<<"2", ".", "0", ".", "0">>)>>}),
      Invocation("version", "", {Flag(K_minor)} \cup CustomTemplates),
      Invocation("version", "", {Flag(K_major), Flag(K_dryRun)}),
      Invocation("release", "", {}),
      Invocation("release", "", {<<K_prefix, JStr(<<"q", "a">>)>>}),
      Invocation("tag", "", {}),
      Invocation("tag", "", {<<K_tagName, JStr(<<"v", "%", "v">>)>>}),
      Invocation("main", "", {Flag(K_minor)}),
      Invocation("main", "", {Flag(K_tagOnly)}),
      Invocation("main", "", {<<K_version, JStr(<<"2", ".", "0", ".", "0">>)>>}),
      Invocation("bumpVersion", "patch", {}) }

InitFiles ==
    /\ plan \in {<<i>> : i \in FileInvocations}
    /\ runs = 0
    /\ proc = NoProcess
    /\ fileConfig \in ConfigSources
    /\ trace = <<>>
    /\ \E m \in ManifestFiles :
         /\ repo = CleanRepository(m)
         /\ disk = m
    /\ pre = [disk |-> disk, repo |-> repo]
    /\ history = <<>>

SpecFiles == InitFiles /\ [][Next]_vars

(***************************************************************************)
(* What a run did                                                          *)
(***************************************************************************)

Done == proc.pc = "done"

\* The effect was attempted (a command started, a write tried) / took place.
Attempts(op) == {i \in 1..Len(trace) : trace[i].op = op}
Happened(op) == \E i \in Attempts(op) : trace[i].ok

\* package.json had uncommitted changes when the run started.
ManifestDirtyAtStart ==
    pre.repo.ok /\ ~(pre.repo.head = pre.repo.index /\ pre.repo.index = pre.disk)

\* The run is a bump (not a tag of the current version).
BumpRun ==
    \/ proc.cmd \in {"version", "release", "bumpVersion"}
    \/ proc.cmd = "main" /\ ~Truthy(Prop(proc.options, K_tagOnly))

\* Dry run is asked for, on the command line or in the config file.
DryRunRequested ==
    Truthy(Prop(proc.options, K_dryRun)) \/ Truthy(Prop(fileConfig, K_dryRun))

\* Nothing was persisted by the current run.
NothingPersisted == disk = pre.disk /\ repo = pre.repo

(***************************************************************************)
(* The claims                                                              *)
(***************************************************************************)

\* C1: when package.json has uncommitted changes at the start of a run, no bump
\* mode of the version, release or single command writes it: the file on disk
\* stays as it was.
C1_DirtyManifestNeverWritten ==
    (runs > 0 /\ ManifestDirtyAtStart /\ proc.cmd \in {"version", "release", "main"})
        => (disk = pre.disk /\ Attempts("write") = {})

\* C2: a bump run that pushed a stash and wrote the manifest issues git stash pop
\* exactly once, whether stage, commit and tag succeed or one of them fails; when
\* that pop succeeds the stash is what it was before the run.
C2_StashPoppedOnce ==
    (Done /\ BumpRun /\ Happened("stash push") /\ Happened("write"))
        => /\ Cardinality(Attempts("stash pop")) = 1
           /\ Happened("stash pop") => repo.stash = pre.repo.stash

\* C2 witness: a version run that stashed, failed to commit and popped.
C2_Witness ==
    /\ Done /\ proc.cmd = "version" /\ Happened("stash push")
    /\ Attempts("commit") # {} /\ ~Happened("commit")
    /\ Happened("stash pop") /\ repo.stash = pre.repo.stash /\ pre.repo.stash # <<>>

\* C3: once a run has pushed a stash, however the run ends the stash has been
\* popped exactly once.
C3_StashNeverStranded ==
    (Done /\ Happened("stash push")) => Cardinality(Attempts("stash pop")) = 1

\* C4: with dry run enabled, in every mode, nothing is written and no command is
\* started: the manifest and the repository stay as they were; the run succeeds
\* exactly when a new version was resolved, and then reports that version.
C4_DryRunChangesNothing ==
    (runs > 0 /\ DryRunRequested)
        => /\ NothingPersisted
           /\ trace = <<>>
           /\ Done => /\ (proc.exitCode = 0) = (proc.newVersion # Null)
                       /\ proc.exitCode = 0 => proc.reported = proc.newVersion

\* C4 witness: a finished dry run of a bump in a tree with uncommitted changes.
C4_Witness ==
    /\ Done /\ DryRunRequested /\ BumpRun /\ proc.exitCode = 0
    /\ proc.reported = proc.newVersion /\ proc.newVersion # disk.version
    /\ repo.ok /\ repo.unstaged

\* The guard at which a run aborted ("" when it passed the guards).
AbortedAt(p) == IF p.exitCode = 1 /\ p.stopped \in {"start", "remote", "status"} THEN p.stopped ELSE ""

\* C5: a dry run previews the run without --dry-run: from the same manifest,
\* repository and options both abort at the same guard or both pass the guards,
\* and both resolve the same version.
C5_DryRunPreviews ==
    (runs = 2 /\ Done /\ Len(history) = 1)
        => /\ AbortedAt(history[1]) = AbortedAt(proc)
           /\ history[1].newVersion = proc.newVersion

\* The number of modes selected among the bump options and --tag-only.
SelectedModes(options) ==
    Len(versionBumpOptions(options)) + (IF Truthy(Prop(options, K_tagOnly)) THEN 1 ELSE 0)

\* C6: a run of the version or single command with no bump mode or with two or
\* more ends with exit status 1 and applies none of them: nothing is written,
\* stashed, committed or tagged.
C6_AmbiguousSelectionFails ==
    (Done /\ proc.cmd \in {"version", "main"} /\ SelectedModes(proc.options) # 1)
        => (proc.exitCode = 1 /\ NothingPersisted)

\* The run has resolved a new version from a valid current version.
Resolved ==
    /\ proc.pc \notin {"idle", "start"}
    /\ proc.newVersion # Null
    /\ SemverValid(proc.packageJson.version)

\* The mode of a run of the version, release or single command.
Mode ==
    IF proc.cmd = "release" THEN "release"
    ELSE IF proc.cmd \in {"version", "main"} /\ ~Truthy(Prop(proc.options, K_tagOnly))
    THEN (IF Truthy(Prop(proc.options, K_version)) THEN "exact" ELSE bumpType(proc.options))
    ELSE ""

PrereleaseContinues ==
    LET pre_ == SemverParse(proc.packageJson.version).prerelease
    IN  \/ Len(pre_) = 0
        \/ Len(pre_) = 2 /\ pre_[1] = Identifier(preid(proc.options)) /\ pre_[2].num

Qa == <<"q", "a">>

\* <base>-<prefix>-r<n>
ReleaseName(base, prefix, n) == base \o <<"-">> \o prefix \o <<"-", "r">> \o numToString(n)

\* The run is a release with the given prefix that has read the manifest.
ReleaseRun(prefix) ==
    /\ proc.cmd = "release" /\ proc.pc \notin {"idle", "start"}
    /\ Prop(proc.options, K_prefix) = prefix

\* C8: release runs with prefix qa, each on the version the run before wrote,
\* succeed and count up by one: 1.2.0, 1.2.0-qa-r1, 1.2.0-qa-r2, 1.2.0-qa-r3.
C8_ReleaseCountsUp ==
    LET parts == split(proc.packageJson.version, "-")
    IN  ReleaseRun(JStr(Qa)) =>
            /\ Len(parts) = 1 => proc.newVersion = ReleaseName(parts[1], Qa, 1)
            /\ Len(parts) = 3 /\ parts[2] = Qa /\ simpleRelease(parts[3])
                  => proc.newVersion = ReleaseName(parts[1], Qa, parseInt(Tail(parts[3])) + 1)

\* The prefixed counters of a version: the pairs <prefix segment, r<N> segment>.
PrefixedCounters(version) ==
    LET parts == split(version, "-")
    IN  {<<parts[i], parts[i + 1]>> : i \in {j \in 2..(Len(parts) - 1) :
                                          ~simpleRelease(parts[j]) /\ simpleRelease(parts[j + 1])}}

\* C9: a release with a prefix keeps the counters of the other prefixes of the
\* current version: from 1.2.0-qa-r2 with prefix stage the result still has
\* qa-r2, and has stage-r1.
C9_OtherPrefixKept ==
    \A prefix \in {<<"q", "a">>, <<"s", "t", "a", "g", "e">>} :
        (ReleaseRun(JStr(prefix)) /\ proc.newVersion # Null) =>
            /\ \A c \in PrefixedCounters(proc.packageJson.version) :
                  c[1] # prefix => c \in PrefixedCounters(proc.newVersion)
            /\ (\A c \in PrefixedCounters(proc.packageJson.version) : c[1] # prefix)
                  => <<prefix, <<"r", "1">> >> \in PrefixedCounters(proc.newVersion)

\* The bare counters of a version: the r<N> segments that do not follow a prefix
\* segment.
BareCounters(version) ==
    LET parts == split(version, "-")
    IN  {i \in 2..Len(parts) : simpleRelease(parts[i]) /\ (i = 2 \/ simpleRelease(parts[i - 1]))}

\* C10: a release without prefix keeps the base version and gives <base>-r1 when
\* the current version has no bare r<N> segment, <base>-r<N+1> when it has; the
\* counter of a prefixed pair is not taken.
C10_BareReleaseCounter ==
    LET parts == split(proc.packageJson.version, "-")
        bare == BareCounters(proc.packageJson.version)
        first == CHOOSE i \in bare : \A j \in bare : i <= j
    IN  (ReleaseRun(JUndefined) /\ proc.newVersion # Null) =>
            proc.newVersion = parts[1] \o <<"-", "r">>
                \o (IF bare = {} THEN <<"1">> ELSE numToString(parseInt(Tail(parts[first])) + 1))

\* The git command was started and failed.
FailedStep(op) == Attempts(op) # {} /\ ~Happened(op)

\* One of the effects that change the manifest or the repository was tried.
Mutations == {"stash push", "write", "add", "commit", "tag", "stash pop"}
NoMutationTried == \A op \in Mutations : Attempts(op) = {}

\* C11: when stage, commit or tag fails after the manifest was written, the
\* stash restoration still runs and the process ends with exit status 1.
C11_FailureReported ==
    (/\ Done /\ proc.cmd \in {"version", "release"} /\ Happened("write")
     /\ \E op \in {"add", "commit", "tag"} : FailedStep(op))
        => /\ proc.exitCode = 1
           /\ proc.hasChanges => Attempts("stash pop") # {}

\* C12: a run of the version command (or of the single command) that ends in
\* the resolver or in a guard ends with exit status 1 and has mutated nothing:
\* no stash, no write, nothing staged, committed or tagged.
C12_AbortBeforeMutation ==
    (Done /\ proc.cmd \in {"version", "main"} /\ proc.stopped \in {"start", "remote", "status"})
        => /\ proc.exitCode = 1
           /\ NothingPersisted
           /\ NoMutationTried

\* C12 witness: the version command stops at the manifest guard, after the
\* remote check passed, in a tree whose other changes would have been stashed.
C12_Witness ==
    /\ Done /\ proc.cmd = "version" /\ proc.stopped = "status" /\ proc.exitCode = 1
    /\ ManifestDirtyAtStart /\ repo.unstaged /\ Happened("rev-list")
    /\ NothingPersisted

\* The remote check is enabled in the configuration the run has loaded.
RemoteCheckEnabled ==
    proc.cmd = "version" /\ Truthy(Setting(proc.config, K_remote, K_fetch))

\* C13: with the remote check enabled and a tracking branch that has commits
\* the local branch lacks, a version run does not get past the check: it ends
\* with exit status 1 and nothing stashed, written, committed or tagged.
C13_BehindRemoteAborts ==
    (RemoteCheckEnabled /\ repo.ok /\ repo.remote > 0)
        => \/ proc.pc = "remote"
           \/ /\ Done /\ proc.stopped = "remote" /\ proc.exitCode = 1
              /\ NothingPersisted /\ NoMutationTried

\* C14: with the remote check enabled and no tracking branch, the failing
\* rev-list is not an error: the run goes on to the next step, and it stops at
\* the check only when git fetch or git rev-parse itself fails.
C14_MissingRemoteSkipped ==
    (RemoteCheckEnabled /\ repo.ok /\ repo.remote = NoRemoteBranch)
        => /\ Attempts("rev-list") # {} => FailedStep("rev-list") /\ proc.stopped # "remote"
           /\ (Done /\ proc.stopped = "remote") => FailedStep("fetch") \/ FailedStep("rev-parse")

\* C14 witness: a version run without tracking branch whose rev-list failed and
\* which went on to write, commit and tag.
C14_Witness ==
    /\ Done /\ RemoteCheckEnabled /\ repo.remote = NoRemoteBranch /\ proc.exitCode = 0
    /\ FailedStep("rev-list") /\ Happened("write") /\ Happened("commit") /\ Happened("tag")

\* Tagging is disabled in the config file.
TagDisabled == Setting(fileConfig, K_tag, K_enabled) = JBool(FALSE)

\* C15: the tag command with tagging disabled in the configuration ends with
\* exit status 1 before any git command and creates no tag.
C15_TagDisabledFails ==
    (Done /\ proc.cmd = "tag" /\ TagDisabled)
        => /\ proc.exitCode = 1 /\ proc.stopped = "start"
           /\ repo.tags = pre.repo.tags
           /\ Attempts("tag") = {}

\* C15 witness: such a run, not a dry run, in a usable repository.
C15_Witness ==
    /\ Done /\ proc.cmd = "tag" /\ TagDisabled /\ ~DryRunRequested /\ repo.ok
    /\ proc.exitCode = 1 /\ repo.tags = {}

\* A run that tags the current version: the tag command, --tag-only of the
\* single command.
TagOnlyRun ==
    \/ proc.cmd = "tag"
    \/ proc.cmd = "main" /\ Truthy(Prop(proc.options, K_tagOnly))

\* C16: a tag-only run pushes no stash, creates no commit and does not write
\* the manifest, on any path.
C16_TagOnlyOnlyTags ==
    (runs > 0 /\ TagOnlyRun)
        => /\ \A op \in {"stash push", "write", "commit"} : Attempts(op) = {}
           /\ disk = pre.disk
           /\ repo.stash = pre.repo.stash
           /\ repo.commits = pre.repo.commits

CommitEnabled == Truthy(Setting(proc.config, K_commit, K_enabled))
TagEnabled == Truthy(Setting(proc.config, K_tag, K_enabled))

\* C17: in a run of the version command that is not a dry run, git commit is
\* started only when commit.enabled and git tag only when tag.enabled; a run
\* that reaches its success message has committed iff commit.enabled and has
\* tagged iff tag.enabled, each toggle on its own.
C17_IndependentToggles ==
    (proc.cmd = "version" /\ proc.pc \notin {"idle", "start"} /\ ~DryRun)
        => /\ Attempts("commit") # {} => CommitEnabled
           /\ Attempts("tag") # {} => TagEnabled
           /\ proc.reported # Undefined
                 => /\ Happened("commit") <=> CommitEnabled
                    /\ Happened("tag") <=> TagEnabled
                    /\ (repo.commits # pre.repo.commits) <=> CommitEnabled
                    /\ (repo.tags # pre.repo.tags) <=> TagEnabled

\* C17 witness: commit disabled, tag enabled: the tag is created and no commit.
C17_Witness ==
    /\ Done /\ proc.cmd = "version" /\ ~DryRun /\ proc.exitCode = 0
    /\ ~CommitEnabled /\ TagEnabled
    /\ Happened("tag") /\ Attempts("commit") = {}
    /\ repo.commits = pre.repo.commits /\ repo.tags # pre.repo.tags

\* result is template with one occurrence of %v replaced by v.
IsSubstitution(template, v, result) ==
    \E i \in 1..(Len(template) - 1) :
        /\ template[i] = "%" /\ template[i + 1] = "v"
        /\ result = SubSeq(template, 1, i - 1) \o v \o SubSeq(template, i + 2, Len(template))

\* The version command has reached its success message in a run that is not a
\* dry run, with commit and tag enabled.
BumpSucceeded ==
    /\ proc.cmd = "version" /\ ~DryRun /\ proc.reported # Undefined
    /\ CommitEnabled /\ TagEnabled

\* The run is --minor alone / --minor with the custom templates, with no config
\* file.
MinorRun(extra) ==
    /\ proc.options = Options("version", {Flag(K_minor)} \cup extra)
    /\ fileConfig = JObj(NoProps)
    /\ pre.disk.version = <<"1", ".", "4", ".", "2">>

RequestedId ==
    Identifier(IF Prop(proc.options, K_prerelease).t = "string"
               THEN Prop(proc.options, K_prerelease).s ELSE <<"r", "c">>)

\* The version as parsed, with the last number of its prerelease counted up.
CounterIncremented(sv) ==
    [sv EXCEPT !.prerelease[LastNumeric(sv.prerelease)] = NumId(@.n + 1)]

\* C19 as claimed: when the prerelease of the current version has the requested
\* identifier, its numeric counter is incremented by 1; otherwise the new
\* prerelease is <identifier>.0; the identifier is rc when none is supplied.
C19_PrereleaseCounter ==
    (Resolved /\ Mode = "prerelease") =>
        LET cur == SemverParse(proc.packageJson.version)
            new == SemverParse(proc.newVersion)
            carries == Len(cur.prerelease) > 0 /\ cur.prerelease[1] = RequestedId
        IN  IF carries /\ LastNumeric(cur.prerelease) > 0
            THEN new = CounterIncremented(cur)
            ELSE new.prerelease = <<RequestedId, NumId(0)>>

\* C19 as amended: the counter is incremented when the prerelease starts with
\* the requested identifier directly followed by a number; in every other case
\* the prerelease becomes <identifier>.0, on the patch-incremented version when
\* the current version has no prerelease and on the same version otherwise.
C19_PrereleaseIdentifier ==
    (Resolved /\ Mode = "prerelease") =>
        LET cur == SemverParse(proc.packageJson.version)
            new == SemverParse(proc.newVersion)
            pre_ == cur.prerelease
            follows == Len(pre_) >= 2 /\ pre_[1] = RequestedId /\ pre_[2].num
        IN  /\ SemverValid(proc.newVersion)
            /\ IF follows
               THEN new = CounterIncremented(cur)
               ELSE new = [cur EXCEPT !.patch = IF Len(pre_) = 0 THEN @ + 1 ELSE @,
                                      !.prerelease = <<RequestedId, NumId(0)>>]

\* C19 witness: 2.0.0-rc.1 with --prerelease and no identifier gives 2.0.0-rc.2.
C19_Witness ==
    /\ Resolved /\ Mode = "prerelease"
    /\ Prop(proc.options, K_prerelease) = JBool(TRUE)
    /\ proc.packageJson.version = <<"2", ".", "0", ".", "0", "-", "r", "c", ".", "1">>
    /\ proc.newVersion = <<"2", ".", "0", ".", "0", "-", "r", "c", ".", "2">>

\* --version is the one mode selected, and the options have been looked at.
ExactRun ==
    /\ proc.cmd \in {"version", "main"} /\ proc.pc \notin {"idle", "start"}
    /\ Truthy(Prop(proc.options, K_version)) /\ SelectedModes(proc.options) = 1

\* C20: in exact mode a supplied version that is not valid semver ends the run
\* with exit status 1 before package.json is read and before any git command;
\* a valid one is the new version as supplied, and the version written, also
\* when it is lower than or equal to the current version.
C20_ExactVersion ==
    ExactRun =>
        LET supplied == Prop(proc.options, K_version).s
        IN  IF SemverValid(supplied)
            THEN /\ proc.newVersion = supplied
                 /\ Happened("write") => disk.version = supplied
            ELSE /\ Done /\ proc.exitCode = 1 /\ proc.stopped = "start"
                 /\ proc.packageJson.version = Undefined
                 /\ trace = <<>>
                 /\ NothingPersisted

\* C20 witness: a supplied version lower than the current one is written.
C20_Witness ==
    /\ Done /\ ExactRun /\ proc.cmd = "version"
    /\ SemverValid(proc.newVersion)
    /\ SemverGt(pre.disk.version, proc.newVersion)
    /\ Happened("write") /\ disk.version = Prop(proc.options, K_version).s

\* The run has loaded its configuration: it went past the first step.
Loaded == proc.pc \notin {"idle", "start"} /\ proc.stopped # "start"

\* The fields of the built-in defaults, as <group, key>, and the top-level ones.
DefaultFields == {<<K_commit, K_enabled>>, <<K_commit, K_message>>, <<K_tag, K_enabled>>, <<K_tag, K_name>>}
DefaultFlags == {K_dryRun, K_checkRemote}

IsDefined(v) == v.t \notin {"undefined", "null"}

\* C21: after the configuration is loaded, every field that has a value in the
\* defaults still has a defined value, whatever the config file holds (an object
\* with null fields, null, or a value that is not an object) and whatever the
\* command line overrides.
C21_DefaultsSurvive ==
    Loaded =>
        /\ \A f \in DefaultFields : IsDefined(Setting(proc.config, f[1], f[2]))
        /\ \A k \in DefaultFlags : IsDefined(Prop(proc.config, k))

\* The fields of the configuration: those of the defaults, remote.fetch and
\* release.prefix.
ConfigFields == DefaultFields \cup {<<K_remote, K_fetch>>, <<K_release, K_prefix>>}

\* The value a field should take: the command line's when it defines one, else
\* the config file's when it defines one, else the default.
Preferred(cli, file, default) ==
    IF IsDefined(cli) THEN cli ELSE IF IsDefined(file) THEN file ELSE default

C23_IndentationKept ==
    (BumpRun /\ Happened("write"))
        => disk.indent = IF Len(pre.disk.indent) = 0 THEN TwoSpaces ELSE pre.disk.indent

\* C24: the tag command with --tag-name <name> creates the tag named by that
\* template with %v replaced by the current version; without the option the tag
\* is named by the default template, the version itself.
C24_TagNameOption ==
    LET given == Prop(proc.options, K_tagName)
        created == repo.tags \ pre.repo.tags
    IN  (Done /\ proc.cmd = "tag" /\ proc.exitCode = 0 /\ ~DryRun /\ fileConfig = JObj(NoProps))
            => /\ Cardinality(created) = 1
               /\ \A t \in created :
                     IF given.t = "string" THEN IsSubstitution(given.s, disk.version, t)
                     ELSE t = disk.version

\* The place of an effect in a bump run.
Rank(op) ==
    CASE op = "stash push" -> 1 [] op = "write" -> 2 [] op = "add" -> 3
      [] op = "commit" -> 4 [] op = "tag" -> 5 [] op = "stash pop" -> 6 [] OTHER -> 0

\* The effects of the run that change the manifest or the repository, in the
\* order they were tried.
Effects == SelectSeq(trace, LAMBDA e : e.op \in Mutations)

\* git diff HEAD had something to show when the run started.
TreeDirtyAtStart == pre.repo.staged \/ pre.repo.unstaged \/ ManifestDirtyAtStart

\* C25: in a bump run of the version command the effects come in the order stash
\* push, write, stage, commit, tag, stash pop, each at most once: the stash is
\* pushed only in a dirty tree, commit and tag only when enabled and never before
\* the write, and the pop only after a push and after the commit and tag steps.
C25_EffectOrder ==
    (runs > 0 /\ proc.cmd = "version") =>
        /\ \A i, j \in 1..Len(Effects) : i < j => Rank(Effects[i].op) < Rank(Effects[j].op)
        /\ Attempts("stash push") # {} => TreeDirtyAtStart
        /\ Attempts("add") # {} => Happened("write")
        /\ Attempts("commit") # {} => (CommitEnabled /\ Happened("add"))
        /\ Attempts("tag") # {} => (TagEnabled /\ Happened("add"))
        /\ Attempts("stash pop") # {} => (Happened("stash push") /\ proc.pc = "done")

\* C25 witness: a version run in a dirty tree that did all six, in order.
C25_Witness ==
    /\ Done /\ proc.cmd = "version" /\ proc.exitCode = 0
    /\ [i \in 1..Len(Effects) |-> Effects[i].op]
          = <<"stash push", "write", "add", "commit", "tag", "stash pop">>
    /\ \A i \in 1..Len(Effects) : Effects[i].ok

\* C26: the manifest-clean check comes before the remote check: a version run
\* on a manifest with uncommitted changes ends at the manifest check without
\* having fetched from the remote or asked it for the commits it is behind.
C26_ManifestCheckFirst ==
    (Done /\ proc.cmd = "version" /\ ManifestDirtyAtStart /\ Loaded /\ ~DryRun)
        => /\ proc.exitCode = 1
           /\ Attempts("fetch") = {} /\ Attempts("rev-parse") = {} /\ Attempts("rev-list") = {}

\* The text ends with r followed by digits.
EndsWithCounter(part) ==
    \E k \in 1..(Len(part) - 1) :
        part[Len(part) - k] = "r" /\ AllDigits(SubSeq(part, Len(part) - k + 1, Len(part)))

\* The first segment of the version, split at "-", that starts with the prefix
\* (0 when there is none).
FirstMatching(version, prefix) ==
    LET parts == split(version, "-")
        matching == {i \in 1..Len(parts) : startsWith(parts[i], prefix)}
    IN  IF matching = {} THEN 0 ELSE CHOOSE i \in matching : \A j \in matching : i <= j

\* The release run found a segment that starts with its prefix and does not end
\* with a counter r<N>.
CounterMissing ==
    /\ proc.cmd = "release" /\ proc.pc \notin {"idle", "start"}
    /\ Prop(proc.options, K_prefix).t = "string"
    /\ LET prefix == Prop(proc.options, K_prefix).s
           e == FirstMatching(pre.disk.version, prefix)
       IN  e # 0 /\ ~EndsWithCounter(split(pre.disk.version, "-")[e])

\* C27: a release run whose prefix matches a segment without a trailing counter
\* r<N> ends with exit status 1 at the version computation: the manifest is not
\* written and nothing is staged, committed or tagged.
C27_InvalidReleaseFormat ==
    CounterMissing =>
        /\ Done /\ proc.exitCode = 1 /\ proc.stopped = "start"
        /\ NothingPersisted /\ NoMutationTried

\* C27 witness: release --prefix qa on 1.2.0-qa-r2, whose segment qa has no
\* counter of its own.
C27_Witness ==
    /\ CounterMissing /\ Done /\ proc.exitCode = 1
    /\ Prop(proc.options, K_prefix) = JStr(Qa)
    /\ disk.version = <<"1", ".", "2", ".", "0", "-", "q", "a", "-", "r", "2">> /\ trace = <<>>

\* C28: a run on a package.json without a version field ends with exit status 1
\* in every mode (patch, minor, major, prerelease, exact, release, tag only):
\* the manifest is not written and nothing is stashed, committed or tagged.
C28_MissingVersionRejected ==
    (Done /\ pre.disk.version = Undefined /\ proc.cmd \in {"version", "release", "tag"})
        => (proc.exitCode = 1 /\ NothingPersisted /\ NoMutationTried)

\* What a command may print.
Outputs == {<<>>, <<"1", "\n">>, <<" ", "M", " ", "p", "a", "c", "k", "a", "g", "e", ".", "j", "s", "o", "n", "\n">>}

\* The commands the program runs with ignoreReturnCode.
Queries == {"status", "diff"}

\* C29: outside dry run exec starts the command and raises exactly when the
\* command failed (could not be started or exited with a nonzero status) and the
\* caller did not pass ignoreReturnCode; it returns what the command printed when
\* it does not raise; under dry run it returns the empty string without starting
\* the command. In a run without a usable git every query with ignoreReturnCode
\* goes through and every other git command raises.
C29_ExecContract ==
    runs > 0 =>
        /\ \A failed \in BOOLEAN, ignoreReturnCode \in BOOLEAN, stdout \in Outputs :
              LET e == exec(proc.config, failed, stdout, ignoreReturnCode)
              IN  IF DryRun
                  THEN ~e.spawned /\ ~e.threw /\ e.stdout = <<>>
                  ELSE /\ e.spawned
                       /\ e.threw = (failed /\ ~ignoreReturnCode)
                       /\ ~failed => e.stdout = stdout
        /\ DryRun => trace = <<>>
        /\ ~repo.ok =>
              \A i \in 1..Len(trace) :
                  trace[i].op # "write" => (trace[i].ok = (trace[i].op \in Queries))

\* C29 witness: the single command without a usable git: git status and git diff
\* fail without raising, the file is written, and git add raises.
C29_Witness ==
    /\ Done /\ ~DryRun /\ ~repo.ok /\ proc.cmd = "main"
    /\ Happened("status") /\ Happened("diff") /\ Happened("write")
    /\ FailedStep("add") /\ Attempts("commit") = {}

\* The stash entries found at the start of the run are still there, below what
\* the run has pushed.
OlderStashKept ==
    /\ Len(repo.stash) >= Len(pre.repo.stash)
    /\ SubSeq(repo.stash, Len(repo.stash) - Len(pre.repo.stash) + 1, Len(repo.stash)) = pre.repo.stash

\* C30: a bump run starts git stash pop at most once, and only after a
\* successful git stash push of the same run; a run that found nothing to stash
\* never pops, and the stash entries that were there before the run stay.
C30_PopOnlyOwnStash ==
    (runs > 0 /\ BumpRun) =>
        /\ Cardinality(Attempts("stash pop")) <= 1
        /\ \A j \in Attempts("stash pop") : \E i \in Attempts("stash push") : i < j /\ trace[i].ok
        /\ ~TreeDirtyAtStart => Attempts("stash pop") = {}
        /\ OlderStashKept

\* C30 witness: a version run in a clean tree with an older stash entry: it
\* wrote, committed and tagged, never popped, and the entry is still there.
C30_Witness ==
    /\ Done /\ proc.cmd = "version" /\ proc.exitCode = 0 /\ ~DryRun
    /\ ~TreeDirtyAtStart /\ pre.repo.stash # <<>>
    /\ Happened("write") /\ Happened("tag")
    /\ Attempts("stash push") = {} /\ Attempts("stash pop") = {}
    /\ repo.stash = pre.repo.stash

\* C31: the manifest check lets a run that is not a dry run go on only when git
\* status ran and printed nothing: where the query itself fails (no git, not a
\* repository) a version run does not write package.json.
C31_StatusFailureStops ==
    (runs > 0 /\ proc.cmd = "version" /\ ~DryRun /\ ~pre.repo.ok)
        => (Attempts("write") = {} /\ disk = pre.disk)

\* The commits the current run has created.
NewCommits == {i \in 1..Len(repo.commits) : i > Len(pre.repo.commits)}

\* C32: the commit of a version run holds the change of package.json and
\* nothing else: what the user had staged or left unstaged in other files is not
\* in it, and is staged or unstaged again when the run has ended.
C32_CommitHoldsManifestOnly ==
    (Done /\ proc.cmd = "version" /\ Happened("commit") /\ Happened("stash pop"))
        => /\ \A i \in NewCommits : repo.commits[i].manifestChanged /\ ~repo.commits[i].staged
           /\ repo.staged = pre.repo.staged
           /\ repo.unstaged = pre.repo.unstaged

\* The run has built its configuration objects.
Merged == proc.pc \notin {"idle", "start"} /\ Len(proc.heap.before) > 0

\* C33: deepMerge writes to no object that existed before it was called, at any
\* depth: after Config.load every object of defaultConfig, of the config file's
\* value and of cliConfig is as it was, defaultConfig still holds the default
\* values, and the configuration in use is the merged one.
C33_MergeLeavesArguments ==
    Merged =>
        /\ Len(proc.heap.heap) >= Len(proc.heap.before)
        /\ \A a \in 1..Len(proc.heap.before) : proc.heap.heap[a] = proc.heap.before[a]
        /\ Read(proc.heap.heap, proc.heap.defaults) = defaultConfig
        /\ Read(proc.heap.heap, proc.heap.config) = proc.config

\* C33 witness: a run with commit.enabled false in the config file and
\* --commit-message on the command line: the configuration in use differs from
\* the defaults in both fields of the group, and defaultConfig is unchanged.
C33_Witness ==
    /\ Merged /\ proc.cmd = "version"
    /\ Setting(fileConfig, K_commit, K_enabled) = JBool(FALSE)
    /\ Prop(proc.options, K_commitMessage) = JStr(<<"r", "e", "l", "e", "a", "s", "e", " ", "%", "v">>)
    /\ Setting(Read(proc.heap.heap, proc.heap.config), K_commit, K_enabled) = JBool(FALSE)
    /\ Setting(Read(proc.heap.heap, proc.heap.config), K_commit, K_message) = JStr(<<"r", "e", "l", "e", "a", "s", "e", " ", "%", "v">>)
    /\ proc.heap.config # proc.heap.defaults
    /\ Read(proc.heap.heap, proc.heap.defaults) = defaultConfig

====
